---------------------------- MODULE Spec2Model ----------------------------
(***************************************************************************)
(* Model of snapcraft/internal/meta/command.py: resolution, normalisation  *)
(* ("massage") and finalisation of application commands against a primed   *)
(* tree, generation of shell wrappers, and of the part lifecycle's         *)
(* scriptlet metadata setters exercised by                                 *)
(* tests/unit/pluginhandler/test_scriptlets.py.                            *)
(*                                                                         *)
(* Text is modelled character by character: a Python str is a sequence of  *)
(* one-character strings, so that prefix tests, prefix stripping, shell    *)
(* tokenisation and the command pattern are computed, not assumed.         *)
(***************************************************************************)
EXTENDS Integers, Sequences, FiniteSets, TLC

VARIABLES
    fs,        \* the filesystem: primed tree under PrimeDir plus host files
    walk,      \* the order in which os.walk visits the primed directories
    cmd,       \* per Command instance: its command / wrapped_command fields
    ret,       \* per Command instance: the last call made on it and its result
    alone,     \* per Command instance: the same calls made on it as the only instance
    ncalls,    \* number of prime_command calls made so far
    probe,     \* result of the last direct call of a module-level function
    part       \* the part handler of the scriptlet lifecycle

vars == <<fs, walk, cmd, ret, alone, ncalls, probe, part>>

----------------------------------------------------------------------------
(* Python values *)

\* Python's None, distinct from every str (a str holds one-character items)
None == <<"None">>

\* the outcome of a call: a returned value or a raised exception
Return(v) == [kind |-> "return", value |-> v]
Raise(e, v) == [kind |-> e, value |-> v]

Lower == {"a","b","c","d","e","f","g","h","i","j","k","l","m",
          "n","o","p","q","r","s","t","u","v","w","x","y","z"}
Upper == {"A","B","C","D","E","F","G","H","I","J","K","L","M",
          "N","O","P","Q","R","S","T","U","V","W","X","Y","Z"}
Digit == {"0","1","2","3","4","5","6","7","8","9"}

\* str.startswith
StartsWith(s, p) == Len(s) >= Len(p) /\ SubSeq(s, 1, Len(p)) = p

\* re.sub("^" + p, "", s): removes one leading occurrence of the literal p
SubPrefix(p, s) == IF StartsWith(s, p) THEN SubSeq(s, Len(p) + 1, Len(s)) ELSE s

\* os.path.join(a, b) for two components
OsPathJoin(a, b) ==
    IF StartsWith(b, <<"/">>) THEN b
    ELSE IF a = <<>> \/ a[Len(a)] = "/" THEN a \o b
    ELSE a \o <<"/">> \o b

\* " ".join(parts)
RECURSIVE JoinSpace(_)
JoinSpace(parts) ==
    IF parts = <<>> THEN <<>>
    ELSE IF Len(parts) = 1 THEN parts[1]
    ELSE parts[1] \o <<" ">> \o JoinSpace(Tail(parts))

Whitespace == {" ", "\t"}
Quotes == {"\"", "'"}

\* str.strip()
RECURSIVE LStrip(_)
LStrip(s) == IF s # <<>> /\ s[1] \in Whitespace THEN LStrip(Tail(s)) ELSE s
RECURSIVE RStrip(_)
RStrip(s) ==
    IF s # <<>> /\ s[Len(s)] \in Whitespace THEN RStrip(SubSeq(s, 1, Len(s) - 1))
    ELSE s
Strip(s) == RStrip(LStrip(s))

\* what shlex.split yields when a quotation is not closed (ValueError)
ShlexError == <<None>>

\* shlex.shlex.read_token with whitespace_split and no commenters, run to the
\* end of the input.  st is the lexer state: " " between tokens, "a" inside a
\* word, or the open quote character.  Without posix a quote opens only at the
\* start of a token, stays in the token, and its closing quote ends the token;
\* with posix quotes are removed and a quoted run continues the word.
RECURSIVE ShlexRead(_, _, _, _, _, _)
ShlexRead(s, i, st, tok, toks, posix) ==
    IF i > Len(s) THEN
        IF st \in Quotes THEN ShlexError
        ELSE IF st = "a" THEN Append(toks, tok)
        ELSE toks
    ELSE LET c == s[i] IN
        IF st = " " THEN
            IF c \in Whitespace THEN ShlexRead(s, i + 1, " ", <<>>, toks, posix)
            ELSE IF c \in Quotes THEN
                ShlexRead(s, i + 1, c, IF posix THEN <<>> ELSE <<c>>, toks, posix)
            ELSE ShlexRead(s, i + 1, "a", <<c>>, toks, posix)
        ELSE IF st \in Quotes THEN
            IF c = st THEN
                IF posix THEN ShlexRead(s, i + 1, "a", tok, toks, posix)
                ELSE ShlexRead(s, i + 1, " ", <<>>, Append(toks, Append(tok, c)), posix)
            ELSE ShlexRead(s, i + 1, st, Append(tok, c), toks, posix)
        ELSE
            IF c \in Whitespace THEN
                ShlexRead(s, i + 1, " ", <<>>, Append(toks, tok), posix)
            ELSE IF posix /\ c \in Quotes THEN ShlexRead(s, i + 1, c, tok, toks, posix)
            ELSE ShlexRead(s, i + 1, "a", Append(tok, c), toks, posix)

\* shlex.split(s, posix=posix)
ShlexSplit(s, posix) == ShlexRead(s, 1, " ", <<>>, <<>>, posix)

----------------------------------------------------------------------------
(* Program constants *)

\* the characters _COMMAND_PATTERN allows after the first one
PatternRest == Lower \cup Upper \cup Digit \cup {"/", ".", " ", "_", "#", ":", "$", "-"}
\* the characters _COMMAND_PATTERN allows first
PatternFirst == PatternRest \ {"/"}

\* _COMMAND_PATTERN.match(command) is not None
_COMMAND_PATTERN(command) ==
    /\ command # <<>>
    /\ command[1] \in PatternFirst
    /\ \A k \in 2..Len(command) : command[k] \in PatternRest

SnapVar == <<"$","S","N","A","P">>
SnapSlash == SnapVar \o <<"/">>
UsrBinEnv == <<"/","u","s","r","/","b","i","n","/","e","n","v">>
ShebangMarker == <<"#","!">>
BinSh == <<"/","b","i","n","/","s","h">>


\* prime_dir, the absolute path of the primed tree
PrimeDir == <<"/","p","r","i","m","e">>
\* the working directory of the process
Cwd == <<"/","w","o","r","k">>

\* the directories common.get_bin_paths lists, relative to its root, in order
BinPaths == << <<"u","s","r","/","b","i","n">>, <<"b","i","n">> >>
\* the directories of the host's PATH, in order
HostPath == << <<"/","u","s","r","/","b","i","n">>, <<"/","b","i","n">> >>

\* the execute permission bits chmod 0o755 sets: owner, group, other
AllExecBits == {"u", "g", "o"}

----------------------------------------------------------------------------
(* The filesystem: a set of regular files [path, lines, xbits]; a directory *)
(* exists when a file lies under it.                                        *)

File(path, lines, xbits) == [path |-> path, lines |-> lines, xbits |-> xbits]

\* a path without trailing separators
RECURSIVE NormPath(_)
NormPath(path) ==
    IF Len(path) > 1 /\ path[Len(path)] = "/" THEN NormPath(SubSeq(path, 1, Len(path) - 1))
    ELSE path

\* os.path.isfile
IsFile(files, path) == \E f \in files : f.path = path
\* os.path.isdir
IsDir(files, path) ==
    \/ NormPath(path) = PrimeDir
    \/ \E f \in files : StartsWith(f.path, NormPath(path) \o <<"/">>)
\* os.path.exists
Exists(files, path) == IsFile(files, path) \/ IsDir(files, path)

FileAt(files, path) == CHOOSE f \in files : f.path = path

\* _utils._executable_is_valid: an existing regular file with an execute bit
_executable_is_valid(files, path) ==
    \E f \in files : f.path = path /\ f.xbits # {}

\* the directories os.walk(prime_dir) visits
WalkDirs(files) ==
    {PrimeDir} \cup
    UNION {{SubSeq(f.path, 1, k - 1) : k \in {j \in (Len(PrimeDir) + 2)..Len(f.path) : f.path[j] = "/"}}
           : f \in {g \in files : StartsWith(g.path, PrimeDir \o <<"/">>)}}

\* os.walk is top-down: a directory is visited before everything under it and
\* its subtree is visited in one run; the order of siblings is the order of
\* os.listdir, which is arbitrary
IsWalkOrder(files, w) ==
    /\ Len(w) = Cardinality(WalkDirs(files))
    /\ {w[k] : k \in 1..Len(w)} = WalkDirs(files)
    /\ \A k \in 1..Len(w) :
         LET under == {j \in 1..Len(w) : StartsWith(w[j], w[k] \o <<"/">>)}
         IN  under = (k + 1)..(k + Cardinality(under))

\* the shebang of a file with the given lines
ShebangOfLines(lines) ==
    IF lines = <<>> \/ ~StartsWith(lines[1], ShebangMarker) THEN None
    ELSE Strip(SubPrefix(ShebangMarker, lines[1]))

\* _get_shebang_from_file: None unless the file starts with "#!", else the
\* rest of its first line, stripped
_get_shebang_from_file(files, file_path) == ShebangOfLines(FileAt(files, file_path).lines)

\* shutil.which for a bare name, given the positions of HostPath that hold it
WhichAmong(hits, command) ==
    IF hits = {} THEN None
    ELSE OsPathJoin(HostPath[CHOOSE k \in hits : \A j \in hits : k <= j], command)

\* shutil.which: a name with a directory part is tried against the working
\* directory only; a bare name in each PATH directory in order
Which(files, command) ==
    IF \E k \in 1..Len(command) : command[k] = "/" THEN
        IF _executable_is_valid(files, OsPathJoin(Cwd, command)) THEN command ELSE None
    ELSE WhichAmong({k \in 1..Len(HostPath) :
                        _executable_is_valid(files, OsPathJoin(HostPath[k], command))},
                    command)

----------------------------------------------------------------------------
(* Module-level functions of command.py.  A function whose body names an   *)
(* intermediate result several times is written as a chain of operators,   *)
(* each taking the intermediate result as a parameter.                     *)

\* the first of a non-empty set of positions
First(hits) == CHOOSE k \in hits : \A j \in hits : k <= j

\* as FindAmong, but asking the host before walking the primed tree
FindAmongHostBeforeWalk(binHits, walkHits, command, files, w) ==
    IF binHits # {} THEN
        OsPathJoin(OsPathJoin(PrimeDir, BinPaths[First(binHits)]), command)
    ELSE IF Which(files, command) # None THEN Which(files, command)
    ELSE IF walkHits # {} THEN OsPathJoin(w[First(walkHits)], command)
    ELSE None

\* _find_executable, given the positions in BinPaths and in the walk at which
\* the command is a valid executable: the first binary path, else the first
\* directory walked, else shutil.which
FindAmong(binHits, walkHits, command, files, w) ==
    IF binHits # {} THEN
        OsPathJoin(OsPathJoin(PrimeDir, BinPaths[First(binHits)]), command)
    ELSE IF walkHits # {} THEN OsPathJoin(w[First(walkHits)], command)
    ELSE Which(files, command)

\* _find_executable
_find_executable(command, files, w) ==
    FindAmong({k \in 1..Len(BinPaths) :
                  _executable_is_valid(files,
                      OsPathJoin(OsPathJoin(PrimeDir, BinPaths[k]), command))},
              {k \in 1..Len(w) : _executable_is_valid(files, OsPathJoin(w[k], command))},
              command, files, w)

\* _strip_command_leaders
_strip_command_leaders(command) == SubPrefix(SnapSlash, SubPrefix(<<"/">>, command))

\* os.path.relpath(path, prime_dir) for a path that starts with prime_dir
RelPath(path) ==
    IF path = PrimeDir THEN <<".">> ELSE SubPrefix(PrimeDir \o <<"/">>, path)

\* as ResolveFound, but leaving a match under prime_dir absolute
ResolveFoundAbsolute(found_command) ==
    [path |-> found_command, search_required |-> TRUE]

\* _resolve_snap_command_path once the search has returned found_command
ResolveFound(found_command) ==
    IF found_command = None THEN [path |-> None, search_required |-> TRUE]
    ELSE IF StartsWith(found_command, PrimeDir) THEN
        [path |-> RelPath(found_command), search_required |-> TRUE]
    ELSE [path |-> found_command, search_required |-> TRUE]

\* _resolve_snap_command_path once the leaders are stripped
ResolveStripped(stripped, files, w) ==
    IF Exists(files, OsPathJoin(PrimeDir, stripped)) THEN
        [path |-> stripped, search_required |-> FALSE]
    ELSE ResolveFound(_find_executable(stripped, files, w))

\* _resolve_snap_command_path: (command or None, search_required)
_resolve_snap_command_path(command, files, w) ==
    ResolveStripped(_strip_command_leaders(command), files, w)

\* _split_command once the shebang is tokenized
SplitShebangParts(shebang_parts, shebang, command_parts) ==
    IF shebang_parts = ShlexError THEN Raise("ValueError", shebang)
    ELSE Return([shebang_parts |-> shebang_parts, command_parts |-> command_parts])

\* _split_command once the shebang is read: "if shebang:"
SplitShebang(shebang, command_parts) ==
    IF shebang = None \/ shebang = <<>> THEN
        Return([shebang_parts |-> <<>>, command_parts |-> command_parts])
    ELSE SplitShebangParts(ShlexSplit(shebang, FALSE), shebang, command_parts)

\* _split_command once command_path is known
SplitAt(command_path, command_parts, files) ==
    IF ~Exists(files, command_path) THEN
        Return([shebang_parts |-> <<>>, command_parts |-> command_parts])
    ELSE IF ~IsFile(files, command_path) THEN Raise("IsADirectoryError", command_path)
    ELSE SplitShebang(_get_shebang_from_file(files, command_path), command_parts)

\* _split_command once the command is tokenized
SplitParts(command_parts, command, files) ==
    IF command_parts = ShlexError THEN Raise("ValueError", command)
    ELSE IF command_parts = <<>> THEN Raise("IndexError", command)
    ELSE SplitAt(OsPathJoin(PrimeDir, _strip_command_leaders(command_parts[1])),
                 command_parts, files)

\* _split_command: (shebang_parts, command_parts)
_split_command(command, files) == SplitParts(ShlexSplit(command, FALSE), command, files)

\* _resolve_interpreter_parts once the interpreter is resolved to r
InterpreterResolved(r, resolved_parts) ==
    [kind  |-> "return",
     value |-> IF r.path # None THEN [resolved_parts EXCEPT ![1] = r.path]
               ELSE resolved_parts,
     log   |-> IF r.path = None THEN <<"interpreter-not-found">>
               ELSE IF r.search_required THEN <<"interpreter-resolved">>
               ELSE <<>>]

\* _resolve_interpreter_parts once a leading /usr/bin/env is removed
ResolveInterpreter(resolved_parts, files, w) ==
    IF resolved_parts = <<>> THEN [kind |-> "IndexError", value |-> <<>>, log |-> <<>>]
    ELSE InterpreterResolved(_resolve_snap_command_path(resolved_parts[1], files, w),
                             resolved_parts)

\* _resolve_interpreter_parts: the resolved parts and the warnings logged
_resolve_interpreter_parts(shebang_parts, command_parts, files, w) ==
    ResolveInterpreter(IF shebang_parts[1] = UsrBinEnv THEN Tail(shebang_parts)
                       ELSE shebang_parts, files, w)

\* as CommandResolved, but never prepending $SNAP for an interpreter
CommandResolvedNoSnap(r, command_parts, interpreted_command) ==
    IF r.path = None THEN
        [kind |-> "PrimedCommandNotFoundError", value |-> command_parts[1], log |-> <<>>]
    ELSE
        [kind  |-> "return",
         value |-> [command_parts EXCEPT ![1] = r.path],
         log   |-> IF r.search_required THEN <<"command-found-by-search">> ELSE <<>>]

\* _resolve_command_parts once the command is resolved to r
CommandResolved(r, command_parts, interpreted_command) ==
    IF r.path = None THEN
        [kind |-> "PrimedCommandNotFoundError", value |-> command_parts[1], log |-> <<>>]
    ELSE
        [kind  |-> "return",
         value |-> [command_parts EXCEPT ![1] =
                      IF interpreted_command /\ r.path # <<>> /\ ~StartsWith(r.path, <<"/">>)
                      THEN OsPathJoin(SnapVar, r.path)
                      ELSE r.path],
         log   |-> IF r.search_required THEN <<"command-found-by-search">> ELSE <<>>]

\* _resolve_command_parts: the resolved parts and the warnings logged
_resolve_command_parts(command_parts, interpreted_command, files, w) ==
    CommandResolved(_resolve_snap_command_path(command_parts[1], files, w),
                    command_parts, interpreted_command)

\* as ChangeWarnings, but with the three warnings as alternatives
ChangeWarningsExclusive(command, massaged_command, interpreted_command) ==
    IF massaged_command = command THEN <<>>
    ELSE IF StartsWith(command, SnapSlash) THEN <<"unneeded-snap-prefix">>
    ELSE IF interpreted_command THEN <<"changed-for-interpreter">>
    ELSE <<"changed">>

\* the warnings _massage_command logs about a changed command
ChangeWarnings(command, massaged_command, interpreted_command) ==
    IF massaged_command = command THEN <<>>
    ELSE (IF StartsWith(command, SnapSlash) THEN <<"unneeded-snap-prefix">> ELSE <<>>)
         \o (IF interpreted_command THEN <<"changed-for-interpreter">> ELSE <<"changed">>)

\* _massage_command once the parts are joined
MassageJoined(command, massaged_command, interpreted_command, log) ==
    [kind  |-> "return",
     value |-> massaged_command,
     log   |-> log \o ChangeWarnings(command, massaged_command, interpreted_command)]

\* _massage_command once the command parts are resolved
MassageResolved(command, interp, parts, interpreted_command) ==
    IF parts.kind # "return" THEN [parts EXCEPT !.log = interp.log \o parts.log]
    ELSE MassageJoined(command, JoinSpace(interp.value \o parts.value),
                       interpreted_command, interp.log \o parts.log)

\* _massage_command once the interpreter parts are resolved
MassageInterpreted(command, interp, command_parts, interpreted_command, files, w) ==
    IF interp.kind # "return" THEN interp
    ELSE MassageResolved(command, interp,
                         _resolve_command_parts(command_parts, interpreted_command, files, w),
                         interpreted_command)

\* _massage_command once the command is split
MassageSplit(command, split, files, w) ==
    IF split.kind # "return" THEN [kind |-> split.kind, value |-> split.value, log |-> <<>>]
    ELSE MassageInterpreted(
            command,
            IF split.value.shebang_parts # <<>>
            THEN _resolve_interpreter_parts(split.value.shebang_parts,
                                            split.value.command_parts, files, w)
            ELSE [kind |-> "return", value |-> <<>>, log |-> <<>>],
            split.value.command_parts,
            split.value.shebang_parts # <<>>,
            files, w)

\* _massage_command: the massaged command (or the exception raised) and the
\* warnings logged up to there
_massage_command(command, files, w) ==
    IF StartsWith(command, <<"/">>) THEN [kind |-> "return", value |-> command, log |-> <<>>]
    ELSE MassageSplit(command, _split_command(SubPrefix(SnapSlash, command), files), files, w)

----------------------------------------------------------------------------
(* class Command.  An instance is a record of its attributes. *)

\* the constructor arguments app_name and command_name of each instance
AppNameOf(self) ==
    IF self = "c1" THEN <<"a","p","p">> ELSE <<"w","e","b">>
CommandNameOf(self) == <<"c","o","m","m","a","n","d">>

\* Command.__init__
NewCommand(app_name, command_name, command) ==
    [_app_name |-> app_name, _command_name |-> command_name, command |-> command,
     wrapped_command |-> None, massaged_command |-> None]

\* Command.requires_wrapper
requires_wrapper(c) ==
    \/ StartsWith(IF c.wrapped_command # None THEN c.wrapped_command ELSE c.command, <<"/">>)
    \/ ~_COMMAND_PATTERN(IF c.wrapped_command # None THEN c.wrapped_command ELSE c.command)

\* Command.wrapped_command_name
wrapped_command_name(c) ==
    c._command_name \o <<"-">> \o c._app_name \o <<".","w","r","a","p","p","e","r">>

\* prime_command where no wrapper is required: the first token must be a
\* valid executable under prime_dir
PrimeDirect(c, command_parts, log, massaged, files) ==
    [self |-> c,
     kind |-> IF command_parts = ShlexError THEN "ValueError"
              ELSE IF command_parts = <<>> THEN "IndexError"
              ELSE IF ~_executable_is_valid(files, OsPathJoin(PrimeDir, command_parts[1]))
                   THEN "InvalidAppCommandNotExecutable"
              ELSE "return",
     value |-> c.command, log |-> log, massaged |-> massaged]

\* prime_command after the massage step left the instance as c
PrimeMassaged(c, can_use_wrapper, log, massaged, files) ==
    IF requires_wrapper(c) THEN
        IF ~can_use_wrapper THEN
            [self |-> c, kind |-> "InvalidAppCommandFormatError", value |-> c.command,
             log |-> log, massaged |-> massaged]
        ELSE
            [self  |-> [c EXCEPT !.wrapped_command = c.command,
                                 !.command = wrapped_command_name(c)],
             kind  |-> "return",
             value |-> wrapped_command_name(c),
             log   |-> log \o (IF ~_COMMAND_PATTERN(c.command)
                               THEN <<"wrapper-generated">> ELSE <<>>),
             massaged |-> massaged]
    ELSE PrimeDirect(c, ShlexSplit(c.command, TRUE), log, massaged, files)

\* prime_command once _massage_command has returned or raised m
PrimeWith(c, m, can_use_wrapper, massage_command, files) ==
    IF m.kind # "return" THEN
        [self |-> c, kind |-> m.kind, value |-> m.value, log |-> m.log, massaged |-> None]
    ELSE PrimeMassaged([c EXCEPT !.command = m.value], can_use_wrapper, m.log,
                       IF massage_command THEN m.value ELSE None, files)

\* Command.prime_command: the instance afterwards, the value returned or the
\* exception raised, the warnings logged, and what _massage_command returned
prime_command(c, can_use_wrapper, massage_command, files, w) ==
    PrimeWith(c,
              IF massage_command THEN _massage_command(c.command, files, w)
              ELSE [kind |-> "return", value |-> c.command, log |-> <<>>],
              can_use_wrapper, massage_command, files)

\* the two lines write_wrapper prints
WrapperLines(command) ==
    << <<"#","!">> \o BinSh,
       <<"e","x","e","c"," ">> \o command \o <<" ","\"","$","@","\"">> >>

\* as WriteAt, but always prefixing the wrapped command with $SNAP/
WriteAtAlwaysPrefixed(command_wrapper, c, files) ==
    [files |-> {f \in files : f.path # command_wrapper}
               \cup {File(command_wrapper, WrapperLines(SnapSlash \o c.wrapped_command),
                          AllExecBits)},
     value |-> command_wrapper]

\* write_wrapper once the path of the wrapper is known
WriteAt(command_wrapper, c, files) ==
    [files |-> {f \in files : f.path # command_wrapper}
               \cup {File(command_wrapper,
                          WrapperLines(IF StartsWith(c.wrapped_command, <<"/">>)
                                       THEN c.wrapped_command
                                       ELSE OsPathJoin(SnapVar, c.wrapped_command)),
                          AllExecBits)},
     value |-> command_wrapper]

\* Command.write_wrapper: the filesystem afterwards and the value returned
write_wrapper(c, files) ==
    IF c.wrapped_command = None THEN [files |-> files, value |-> None]
    ELSE WriteAt(OsPathJoin(PrimeDir, wrapped_command_name(c)), c, files)

----------------------------------------------------------------------------
(* Inputs: primed trees, host files, raw command texts *)

\* bound on the number of prime_command calls in a run
MaxCalls == 3

Foo == <<"f","o","o">>
Run == <<"r","u","n">>
Wlang == <<"w","l","a","n","g">>
Bin == <<"b","i","n">>
UsrBin == <<"u","s","r","/","b","i","n">>
Opt == <<"o","p","t">>
Lib == <<"l","i","b">>

\* the absolute path of a path relative to the primed tree
Primed(rel) == OsPathJoin(PrimeDir, rel)

\* a compiled executable: its first line is no interpreter directive
Binary(path) == File(path, << <<"E","L","F">> >>, AllExecBits)
\* an executable script with the given interpreter directive
Script(path, shebang) == File(path, << ShebangMarker \o shebang, <<"p","a","s","s">> >>, AllExecBits)

EnvWlang == UsrBinEnv \o <<" ">> \o Wlang
AbsWlang == <<"/">> \o OsPathJoin(UsrBin, Wlang)
SbinWlang == <<"/","s","b","i","n","/">> \o Wlang

Trees ==
    { {},
      {Binary(Primed(OsPathJoin(Bin, Foo)))},
      {Binary(Primed(OsPathJoin(UsrBin, Foo))), Binary(Primed(OsPathJoin(Bin, Foo)))},
      {Binary(Primed(OsPathJoin(Bin, Foo))), Binary(Primed(OsPathJoin(Opt, Foo)))},
      {Binary(Primed(OsPathJoin(Opt, Foo))), Binary(Primed(OsPathJoin(Lib, Foo)))},
      {File(Primed(OsPathJoin(Bin, Foo)), << <<"E","L","F">> >>, {})},
      {Script(Primed(OsPathJoin(Bin, Run)), EnvWlang)},
      {Script(Primed(OsPathJoin(Bin, Run)), EnvWlang), Binary(Primed(OsPathJoin(UsrBin, Wlang)))},
      {Script(Primed(OsPathJoin(Bin, Run)), AbsWlang), Binary(Primed(OsPathJoin(UsrBin, Wlang)))},
      {Script(Primed(OsPathJoin(Bin, Run)), SbinWlang)} }

Hosts ==
    { {Binary(BinSh)},
      {Binary(BinSh), Binary(AbsWlang), Binary(<<"/">> \o OsPathJoin(UsrBin, Foo))} }

RawCommands ==
    { Foo,
      OsPathJoin(Bin, Foo),
      OsPathJoin(SnapVar, OsPathJoin(Bin, Foo)),
      <<"/">> \o OsPathJoin(Opt, Foo),
      OsPathJoin(Bin, Foo) \o <<" ","*">>,
      Run,
      OsPathJoin(Bin, Run),
      OsPathJoin(SnapVar, OsPathJoin(Bin, Run)) }

\* the sequences that list every member of S once
Orders(S) ==
    {w \in [1..Cardinality(S) -> S] : \A a, b \in 1..Cardinality(S) : w[a] = w[b] => a = b}

----------------------------------------------------------------------------
(* State *)

\* the names a command name is looked up by directly
LocateNames == {Foo, Run, Wlang, <<"s","h">>, OsPathJoin(Bin, Foo)}

\* what is recorded of an instance: the text it was constructed with, the
\* latest text _massage_command returned for it, whether a prime_command call
\* has returned the wrapper file name, and its last call
NoCall(raw) ==
    [raw |-> raw, normalized |-> None, redirected |-> FALSE,
     op |-> "none", can_use_wrapper |-> FALSE,
     massage_command |-> FALSE, input |-> None, kind |-> "none", value |-> None,
     log |-> <<>>]
NoProbe == [op |-> "none", input |-> None, kind |-> "none", value |-> None, log |-> <<>>]

\* a primed tree on a host, and an order in which os.walk lists it
InitFiles ==
    /\ \E t \in Trees, h \in Hosts : fs = t \cup h
    /\ walk \in {w \in Orders(WalkDirs(fs)) : IsWalkOrder(fs, w)}

\* the instances `insts`, each constructed with a raw command text of `raws`
InitCommands(insts, raws) ==
    /\ cmd \in {[self \in insts |-> NewCommand(AppNameOf(self), CommandNameOf(self), r[self])]
                : r \in [insts -> raws]}
    /\ ret = [self \in insts |-> NoCall(cmd[self].command)]
    /\ alone = [self \in insts |-> [self |-> cmd[self], kind |-> "none", value |-> None]]
    /\ ncalls = 0

\* as Finalized, but with wrapped_command an attribute of the class, shared
\* by every instance
FinalizedSharedAttribute(self, r, can_use_wrapper, massage_command) ==
    /\ cmd' = [other \in DOMAIN cmd |->
                IF other = self THEN r.self
                ELSE [cmd[other] EXCEPT !.wrapped_command = r.self.wrapped_command]]
    /\ ret' = [ret EXCEPT ![self] =
                [raw |-> ret[self].raw,
                 normalized |-> IF r.massaged # None THEN r.massaged
                                ELSE ret[self].normalized,
                 redirected |-> \/ ret[self].redirected
                                \/ /\ r.kind = "return"
                                   /\ r.value = wrapped_command_name(cmd[self]),
                 op |-> "prime_command", can_use_wrapper |-> can_use_wrapper,
                 massage_command |-> massage_command, input |-> cmd[self].command,
                 kind |-> r.kind, value |-> r.value, log |-> r.log]]

\* the instance and the record of its last call after prime_command gave r
Finalized(self, r, can_use_wrapper, massage_command) ==
    /\ cmd' = [cmd EXCEPT ![self] = r.self]
    /\ ret' = [ret EXCEPT ![self] =
                [raw |-> ret[self].raw,
                 normalized |-> IF r.massaged # None THEN r.massaged
                                ELSE ret[self].normalized,
                 redirected |-> \/ ret[self].redirected
                                \/ /\ r.kind = "return"
                                   /\ r.value = wrapped_command_name(cmd[self]),
                 op |-> "prime_command", can_use_wrapper |-> can_use_wrapper,
                 massage_command |-> massage_command, input |-> cmd[self].command,
                 kind |-> r.kind, value |-> r.value, log |-> r.log]]

\* a caller invokes self.prime_command(can_use_wrapper=.., massage_command=..,
\* prime_dir=PrimeDir)
Finalize(self, can_use_wrapper, massage_command) ==
    /\ ncalls < MaxCalls
    /\ Finalized(self, prime_command(cmd[self], can_use_wrapper, massage_command, fs, walk),
                 can_use_wrapper, massage_command)
    /\ ncalls' = ncalls + 1
    /\ UNCHANGED <<fs, walk, probe, part>>

PrimeCommand(self, can_use_wrapper, massage_command) ==
    /\ Finalize(self, can_use_wrapper, massage_command)
    /\ UNCHANGED alone

\* the filesystem and the record of the last call after write_wrapper gave r
Written(self, r) ==
    /\ fs' = r.files
    /\ ret' = [ret EXCEPT ![self] =
                [NoCall(ret[self].raw) EXCEPT !.normalized = ret[self].normalized,
                                              !.redirected = ret[self].redirected,
                                              !.op = "write_wrapper",
                                              !.kind = "return", !.value = r.value]]

\* a caller invokes self.write_wrapper(prime_dir=PrimeDir)
WriteWrapper(self) ==
    /\ Written(self, write_wrapper(cmd[self], fs))
    /\ UNCHANGED <<walk, cmd, alone, ncalls, probe, part>>

(* The lifecycle of one part: pull, build, stage, prime, each running the
   override scriptlet of its step; a scriptlet is a sequence of snapcraftctl
   calls of the metadata setters. *)

Steps == <<"pull", "build", "stage", "prime">>

Setters == {"set-version", "set-grade"}

\* the most snapcraftctl calls in one scriptlet
MaxScriptlet == 2

\* "snapcraftctl <setter> <value>"
Snapcraftctl(setter, value) == [setter |-> setter, value |-> value]

\* the value the scriptlet of each step passes to a setter
StepValue == <<"1", "2", "3", "4">>

\* the scriptlets of the step at position k: up to MaxScriptlet calls
Scriptlets(k) ==
    UNION {[1..n -> {Snapcraftctl(setter, <<StepValue[k]>>) : setter \in Setters}]
           : n \in 0..MaxScriptlet}

\* scriptlet_metadata whose getters all return None
NoMetadata == [setter \in Setters |-> None]

\* the handler of a part with the override scriptlets part_properties; states
\* holds the scriptlet_metadata of the state of each step run so far
load_part(part_properties) ==
    [part_properties |-> part_properties, states |-> <<>>, raised |-> "none"]

\* a handler without scriptlets
NoPart == load_part([k \in 1..Len(Steps) |-> <<>>])

\* the setters that a state of an earlier step records as set
SetEarlier(states) ==
    {setter \in Setters : \E k \in 1..Len(states) : states[k][setter] # None}

\* as RunScriptlet, but a later call of a setter replaces the earlier value
RECURSIVE RunScriptletReplacing(_, _, _, _)
RunScriptletReplacing(scriptlet, i, metadata, earlier) ==
    IF i > Len(scriptlet) THEN [kind |-> "return", metadata |-> metadata]
    ELSE RunScriptletReplacing(scriptlet, i + 1,
                      [metadata EXCEPT ![scriptlet[i].setter] = scriptlet[i].value],
                      earlier)

\* runs the calls of a scriptlet from the i-th on: a setter that was already
\* called, in this step or in an earlier one, makes the scriptlet fail
RECURSIVE RunScriptlet(_, _, _, _)
RunScriptlet(scriptlet, i, metadata, earlier) ==
    IF i > Len(scriptlet) THEN [kind |-> "return", metadata |-> metadata]
    ELSE IF scriptlet[i].setter \in earlier \/ metadata[scriptlet[i].setter] # None
         THEN [kind |-> "ScriptletRunError", metadata |-> metadata]
    ELSE RunScriptlet(scriptlet, i + 1,
                      [metadata EXCEPT ![scriptlet[i].setter] = scriptlet[i].value],
                      earlier)

\* the handler once the scriptlet of its next step gave r
StepRun(handler, r) ==
    IF r.kind = "return" THEN [handler EXCEPT !.states = Append(@, r.metadata)]
    ELSE [handler EXCEPT !.raised = r.kind]

\* the step at position k is run: the steps before it have run, none raised
RunStep(k) ==
    /\ part.raised = "none"
    /\ Len(part.states) = k - 1
    /\ part' = StepRun(part, RunScriptlet(part.part_properties[k], 1, NoMetadata,
                                          SetEarlier(part.states)))
    /\ UNCHANGED <<fs, walk, cmd, ret, alone, ncalls, probe>>

\* handler.pull()
pull == RunStep(1)

\* handler.build()
build == RunStep(2)

\* handler.stage()
stage == RunStep(3)

\* handler.prime()
prime == RunStep(4)

Init ==
    /\ InitFiles
    /\ InitCommands({"c1"}, RawCommands)
    /\ probe = NoProbe
    /\ part = NoPart

Next ==
    \/ \E self \in DOMAIN cmd, can_use_wrapper \in BOOLEAN, massage_command \in BOOLEAN :
            PrimeCommand(self, can_use_wrapper, massage_command)
    \/ \E self \in DOMAIN cmd : WriteWrapper(self)

\* one Command instance, primed and written any number of times
Spec == Init /\ [][Next]_vars

(* Two instances of different applications on one primed tree, finalized in
   any interleaving; beside each, the same calls on an instance of its own. *)

InterleaveRaws ==
    { Foo, <<"/">> \o OsPathJoin(Opt, Foo), OsPathJoin(Bin, Run),
      OsPathJoin(Bin, Foo) \o <<" ","*">> }

InitInterleave ==
    /\ InitFiles
    /\ InitCommands({"c1", "c2"}, InterleaveRaws)
    /\ probe = NoProbe
    /\ part = NoPart

\* what is kept of a call on the instance of its own
AloneResult(r) == [self |-> r.self, kind |-> r.kind, value |-> r.value]

InterleavedPrimeCommand(self, can_use_wrapper, massage_command) ==
    /\ Finalize(self, can_use_wrapper, massage_command)
    /\ alone' = [alone EXCEPT ![self] =
                    AloneResult(prime_command(alone[self].self, can_use_wrapper,
                                              massage_command, fs, walk))]

NextInterleave ==
    \E self \in DOMAIN cmd, can_use_wrapper \in BOOLEAN, massage_command \in BOOLEAN :
        InterleavedPrimeCommand(self, can_use_wrapper, massage_command)

SpecInterleave == InitInterleave /\ [][NextInterleave]_vars

(* The module-level functions called directly on drawn inputs. *)

InitFunctions ==
    /\ InitFiles
    /\ InitCommands({}, RawCommands)
    /\ probe = NoProbe
    /\ part = NoPart

\* what is recorded of a direct call of _massage_command
Massaged(raw, m) ==
    [op |-> "_massage_command", input |-> raw, kind |-> m.kind, value |-> m.value,
     log |-> m.log]

\* _massage_command(command=raw, prime_dir=PrimeDir)
Massage(raw) ==
    /\ probe' = Massaged(raw, _massage_command(raw, fs, walk))
    /\ UNCHANGED <<fs, walk, cmd, ret, alone, ncalls, part>>

\* _find_executable(command=name, prime_dir=PrimeDir)
Locate(name) ==
    /\ probe' = [op |-> "_find_executable", input |-> name, kind |-> "return",
                 value |-> _find_executable(name, fs, walk), log |-> <<>>]
    /\ UNCHANGED <<fs, walk, cmd, ret, alone, ncalls, part>>

NextFunctions ==
    \/ \E raw \in RawCommands : Massage(raw)
    \/ \E name \in LocateNames : Locate(name)

SpecFunctions == InitFunctions /\ [][NextFunctions]_vars

(* One part loaded with any override scriptlets and run through its steps. *)

InitLifecycle ==
    /\ fs = {}
    /\ walk = <<PrimeDir>>
    /\ InitCommands({}, RawCommands)
    /\ probe = NoProbe
    /\ part \in {load_part(part_properties) :
                    part_properties \in {<<a, b, c, d>> : a \in Scriptlets(1),
                                         b \in Scriptlets(2), c \in Scriptlets(3),
                                         d \in Scriptlets(4)}}

NextLifecycle ==
    \/ pull
    \/ build
    \/ stage
    \/ prime

SpecLifecycle == InitLifecycle /\ [][NextLifecycle]_vars

----------------------------------------------------------------------------
(* Properties of one Command instance (Spec) *)

\* the members of a sequence
Range(seq) == {seq[k] : k \in 1..Len(seq)}

\* the tokens of a command text as _massage_command sees them
MassageTokens(command) == ShlexSplit(SubPrefix(SnapSlash, command), FALSE)

\* the first token of the command text names a file of the primed tree that
\* starts with an interpreter directive
NamesScript(command, files) ==
    /\ ~StartsWith(command, <<"/">>)
    /\ MassageTokens(command) \notin {ShlexError, <<>>}
    /\ IsFile(files, Primed(_strip_command_leaders(MassageTokens(command)[1])))
    /\ ShebangOfLines(
          FileAt(files, Primed(_strip_command_leaders(MassageTokens(command)[1]))).lines)
       \notin {None, <<>>}

\* the interpreter that directive names, /usr/bin/env set aside
InterpreterOf(command, files) ==
    LET parts == ShlexSplit(ShebangOfLines(
                    FileAt(files,
                        Primed(_strip_command_leaders(MassageTokens(command)[1]))).lines),
                    FALSE)
    IN  IF parts[1] = UsrBinEnv THEN parts[2] ELSE parts[1]

\* a name is under the primed tree neither literally, nor in a binary
\* directory, nor in any directory of the tree
NotStaged(name, files) ==
    /\ ~Exists(files, Primed(name))
    /\ \A k \in 1..Len(BinPaths) :
          ~_executable_is_valid(files, OsPathJoin(Primed(BinPaths[k]), name))
    /\ \A d \in WalkDirs(files) : ~_executable_is_valid(files, OsPathJoin(d, name))

\* a name cannot be located anywhere: not staged and not on the host path
Unlocatable(name, files) ==
    /\ NotStaged(_strip_command_leaders(name), files)
    /\ Which(files, _strip_command_leaders(name)) = None

\* C1: in every reachable state of one Command, whatever prime_command and
\* write_wrapper calls were made (failed and repeated ones included): if
\* wrapped_command is set, command equals the wrapper file name
\* "<command_name>-<app_name>.wrapper"; while it is unset, command is the raw
\* text or the latest output of _massage_command.
C1_CommandIsWrapperNameOnceWrapped ==
    \A self \in DOMAIN cmd :
        IF cmd[self].wrapped_command # None
        THEN cmd[self].command = wrapped_command_name(cmd[self])
        ELSE cmd[self].command \in {ret[self].raw, ret[self].normalized}

\* C2: over any sequence of prime_command calls, wrapped_command is assigned
\* at most once, to the resolved command text as it was before the wrapper
\* redirection, and never to the wrapper file name itself.
C2_WrappedCommandAssignedOnce ==
    [][\A self \in DOMAIN cmd :
        /\ cmd[self].wrapped_command # None
              => cmd'[self].wrapped_command = cmd[self].wrapped_command
        /\ cmd'[self].wrapped_command # cmd[self].wrapped_command
              => /\ cmd'[self].wrapped_command =
                        (IF ret'[self].massage_command THEN ret'[self].normalized
                         ELSE ret'[self].input)
                 /\ cmd'[self].wrapped_command # wrapped_command_name(cmd'[self])]_vars

\* C3: a prime_command call with the massage applied and wrappers allowed, on
\* a command whose first token names a primed script whose interpreter cannot
\* be located anywhere, returns a command (it raises nothing), logs the
\* interpreter warning and keeps the interpreter token as the shebang gave it.
C3_UnresolvedInterpreterNeverFatal ==
    \A self \in DOMAIN cmd :
        ( /\ ret[self].op = "prime_command"
          /\ ret[self].can_use_wrapper
          /\ ret[self].massage_command
          /\ NamesScript(ret[self].input, fs)
          /\ Unlocatable(InterpreterOf(ret[self].input, fs), fs) )
        => /\ ret[self].kind = "return"
           /\ "interpreter-not-found" \in Range(ret[self].log)
           /\ ShlexSplit(ret[self].normalized, FALSE)[1] = InterpreterOf(ret[self].input, fs)

\* the text write_wrapper execs for a wrapped command
ExecTarget(wrapped_command) ==
    IF StartsWith(wrapped_command, <<"/">>) THEN wrapped_command
    ELSE SnapSlash \o wrapped_command

\* where the wrapper of an instance goes
WrapperPath(c) == PrimeDir \o <<"/">> \o wrapped_command_name(c)

\* what a write_wrapper call returned and left on disk
C7_WrittenWrapper ==
    \A self \in DOMAIN cmd :
        /\ ( ret[self].op = "write_wrapper" /\ cmd[self].wrapped_command = None )
              => /\ ret[self].value = None
                 /\ ~IsFile(fs, WrapperPath(cmd[self]))
        /\ ( ret[self].op = "write_wrapper" /\ cmd[self].wrapped_command # None )
              => /\ ret[self].value = WrapperPath(cmd[self])
                 /\ IsFile(fs, WrapperPath(cmd[self]))
                 /\ FileAt(fs, WrapperPath(cmd[self])).lines =
                        << <<"#","!","/","b","i","n","/","s","h">>,
                           <<"e","x","e","c"," ">>
                              \o ExecTarget(cmd[self].wrapped_command)
                              \o <<" ","\"","$","@","\"">> >>
                 /\ FileAt(fs, WrapperPath(cmd[self])).xbits = {"u", "g", "o"}
        /\ IsFile(fs, WrapperPath(cmd[self])) => ret[self].redirected

\* a step changes no file but the wrapper of an instance that has a
\* wrapped_command
C7_WritesOnlyWrappers ==
    \A f \in (fs' \ fs) \cup (fs \ fs') :
        \E self \in DOMAIN cmd :
            /\ f.path = WrapperPath(cmd[self])
            /\ cmd[self].wrapped_command # None

\* C7: write_wrapper returns None and writes nothing when no wrapped_command
\* is recorded; otherwise it writes, at <prime_dir>/<command_name>-<app_name>.wrapper,
\* the two lines "#!/bin/sh" and "exec <cmd> "$@"" (<cmd> the wrapped command
\* itself if it starts with "/", "$SNAP/" and the wrapped command otherwise),
\* executable for owner, group and other, and returns that path; so a wrapper
\* file exists only after a prime_command call has returned the wrapper name.
C7_WriteWrapperContract == []C7_WrittenWrapper /\ [][C7_WritesOnlyWrappers]_vars

\* a wrapper written for an absolute wrapped command
C7_Witness ==
    \E self \in DOMAIN cmd :
        /\ ret[self].op = "write_wrapper"
        /\ ret[self].value = WrapperPath(cmd[self])
        /\ StartsWith(cmd[self].wrapped_command, <<"/">>)
        /\ IsFile(fs, WrapperPath(cmd[self]))

----------------------------------------------------------------------------
(* Properties of the module-level functions (SpecFunctions) *)

\* a bare command name: one token without a directory part
IsBare(command) ==
    /\ command # <<>>
    /\ \A k \in 1..Len(command) : command[k] \notin {"/", " ", "\t", "\"", "'", "$"}

\* the primed file bin/<name> is an executable script whose directive is
\* "#!/usr/bin/env <interp>", <interp> being found on the host path only, and
\* no earlier binary directory holds <name>
EnvScriptInBin(name, files) ==
    /\ _executable_is_valid(files, Primed(OsPathJoin(Bin, name)))
    /\ \A k \in 1..Len(BinPaths) :
          _executable_is_valid(files, OsPathJoin(Primed(BinPaths[k]), name))
              => BinPaths[k] = Bin
    /\ NamesScript(OsPathJoin(Bin, name), files)
    /\ StartsWith(FileAt(files, Primed(OsPathJoin(Bin, name))).lines[1],
                  ShebangMarker \o UsrBinEnv \o <<" ">>)
    /\ IsBare(InterpreterOf(OsPathJoin(Bin, name), files))
    /\ NotStaged(InterpreterOf(OsPathJoin(Bin, name), files), files)
    /\ Which(files, InterpreterOf(OsPathJoin(Bin, name), files)) # None

\* the host path of the interpreter of bin/<name>
HostInterpreter(name, files) == Which(files, InterpreterOf(OsPathJoin(Bin, name), files))

\* C4 (as stated): massaging the bare "<name>" of such a script yields
\* "<host path of interp> bin/<name>" and logs the interpreter warning
C4_BareNameGetsInterpreter ==
    ( /\ probe.op = "_massage_command"
      /\ IsBare(probe.input)
      /\ EnvScriptInBin(probe.input, fs) )
    => /\ probe.kind = "return"
       /\ probe.value = HostInterpreter(probe.input, fs) \o <<" ">>
                           \o OsPathJoin(Bin, probe.input)
       /\ "interpreter-resolved" \in Range(probe.log)

\* C4 (amended): for such a script, with nothing at <prime_dir>/<name>,
\* massaging the bare "<name>" yields "bin/<name>" with no interpreter, and
\* logs that the command was found by search and was changed; massaging
\* "bin/<name>" yields "<host path of interp> $SNAP/bin/<name>" and logs that
\* the interpreter was resolved by search and that the command was changed
\* to account for it.
C4_InterpreterOnlyForLiteralPath ==
    /\ ( /\ probe.op = "_massage_command"
         /\ IsBare(probe.input)
         /\ EnvScriptInBin(probe.input, fs)
         /\ ~Exists(fs, Primed(probe.input)) )
       => /\ probe.kind = "return"
          /\ probe.value = OsPathJoin(Bin, probe.input)
          /\ probe.log = <<"command-found-by-search", "changed">>
    /\ \A name \in LocateNames :
         ( /\ probe.op = "_massage_command"
           /\ probe.input = OsPathJoin(Bin, name)
           /\ IsBare(name)
           /\ EnvScriptInBin(name, fs) )
         => /\ probe.kind = "return"
            /\ probe.value = HostInterpreter(name, fs) \o <<" ">>
                                \o SnapSlash \o OsPathJoin(Bin, name)
            /\ probe.log = <<"interpreter-resolved", "changed-for-interpreter">>

\* "bin/run" massaged where its interpreter is on the host only
C4_Witness ==
    /\ probe.op = "_massage_command"
    /\ probe.input = OsPathJoin(Bin, Run)
    /\ EnvScriptInBin(Run, fs)
    /\ probe.value = HostInterpreter(Run, fs) \o <<" ">> \o SnapSlash \o OsPathJoin(Bin, Run)

\* the positions of BinPaths under which the name is a valid executable
BinDirsWith(name, files) ==
    {k \in 1..Len(BinPaths) :
        _executable_is_valid(files, OsPathJoin(Primed(BinPaths[k]), name))}

\* C5 (as stated): a bare name found in a binary directory is massaged
\* to "<binary dir>/<name>" without a search warning
C5_BinaryDirFoundSilently ==
    ( /\ probe.op = "_massage_command"
      /\ IsBare(probe.input)
      /\ BinDirsWith(probe.input, fs) # {}
      /\ ~Exists(fs, Primed(probe.input)) )
    => /\ probe.kind = "return"
       /\ probe.value \in {OsPathJoin(BinPaths[k], probe.input) :
                             k \in BinDirsWith(probe.input, fs)}
       /\ "command-found-by-search" \notin Range(probe.log)

\* C5 (amended): a bare name with an executable at <binary dir>/<name> and
\* nothing at <prime_dir>/<name> is massaged to "<binary dir>/<name>", for the
\* first such binary directory, and the search warning ("not found in the
\* prime directory, but found ...") is logged, then the changed warning.
C5_BinaryDirFoundWithWarning ==
    ( /\ probe.op = "_massage_command"
      /\ IsBare(probe.input)
      /\ BinDirsWith(probe.input, fs) # {}
      /\ ~Exists(fs, Primed(probe.input)) )
    => /\ probe.kind = "return"
       /\ probe.value = OsPathJoin(BinPaths[First(BinDirsWith(probe.input, fs))],
                                   probe.input)
       /\ probe.log = <<"command-found-by-search", "changed">>

\* "foo" massaged where two binary directories hold it
C5_Witness ==
    /\ probe.op = "_massage_command"
    /\ probe.input = Foo
    /\ Cardinality(BinDirsWith(Foo, fs)) = 2
    /\ probe.value = OsPathJoin(UsrBin, Foo)

\* C9: _find_executable returns the first match in this order: the binary
\* directories in their order, then a directory of the walk of the primed
\* tree, then the host path; a host match only when nothing under the primed
\* tree matches; None if and only if none of the three finds the name.
C9_FirstMatchWins ==
    probe.op = "_find_executable" =>
        LET name == probe.input
            inBin == BinDirsWith(name, fs)
            inTree == {d \in WalkDirs(fs) : _executable_is_valid(fs, OsPathJoin(d, name))}
        IN  /\ inBin # {} =>
                  probe.value = OsPathJoin(Primed(BinPaths[First(inBin)]), name)
            /\ (inBin = {} /\ inTree # {}) =>
                  probe.value \in {OsPathJoin(d, name) : d \in inTree}
            /\ (inBin = {} /\ inTree = {}) => probe.value = Which(fs, name)
            /\ probe.value = None <=>
                  (inBin = {} /\ inTree = {} /\ Which(fs, name) = None)

\* a name found by the walk while the host has it too
C9_Witness ==
    /\ probe.op = "_find_executable"
    /\ BinDirsWith(probe.input, fs) = {}
    /\ Which(fs, probe.input) # None
    /\ StartsWith(probe.value, PrimeDir \o <<"/">>)

\* the warnings that explain a rewrite
RewriteWarnings == {"unneeded-snap-prefix", "changed-for-interpreter", "changed"}

\* how often a warning occurs in a log
Occurrences(log, warning) == Cardinality({k \in 1..Len(log) : log[k] = warning})

\* C10 (as stated): a changed command gets exactly one rewrite warning,
\* the first that applies of: prefix removed, interpreter, other
C10_OneRewriteWarning ==
    (probe.op = "_massage_command" /\ probe.kind = "return") =>
        IF probe.value # probe.input THEN
            /\ Cardinality({k \in 1..Len(probe.log) : probe.log[k] \in RewriteWarnings}) = 1
            /\ (IF StartsWith(probe.input, SnapSlash) THEN "unneeded-snap-prefix"
                ELSE IF NamesScript(probe.input, fs) THEN "changed-for-interpreter"
                ELSE "changed") \in Range(probe.log)
        ELSE Range(probe.log) \cap RewriteWarnings = {}

\* C10 (amended): whenever _massage_command returns a text that differs from
\* the raw one it logs the "unneeded $SNAP/" warning if and only if the raw
\* text starts with "$SNAP/", and in every case exactly one of the two
\* "changed" warnings: the interpreter one if a shebang was found, the plain
\* one otherwise; when the text is unchanged it logs none of the three.
C10_PrefixWarningAndOneChangeWarning ==
    (probe.op = "_massage_command" /\ probe.kind = "return") =>
        IF probe.value # probe.input THEN
            /\ Occurrences(probe.log, "unneeded-snap-prefix") =
                  (IF StartsWith(probe.input, SnapSlash) THEN 1 ELSE 0)
            /\ Occurrences(probe.log, "changed-for-interpreter") =
                  (IF NamesScript(probe.input, fs) THEN 1 ELSE 0)
            /\ Occurrences(probe.log, "changed") =
                  (IF NamesScript(probe.input, fs) THEN 0 ELSE 1)
        ELSE Range(probe.log) \cap RewriteWarnings = {}

\* "$SNAP/bin/run" massaged for a script: both warnings are logged
C10_Witness ==
    /\ probe.op = "_massage_command"
    /\ probe.kind = "return"
    /\ StartsWith(probe.input, SnapSlash)
    /\ "unneeded-snap-prefix" \in Range(probe.log)
    /\ "changed-for-interpreter" \in Range(probe.log)

----------------------------------------------------------------------------
(* Properties of two interleaved instances (SpecInterleave) *)

----------------------------------------------------------------------------
(* Properties of the part lifecycle (SpecLifecycle) *)

\* how many calls of the setter the scriptlets of the part hold
RECURSIVE Invocations(_, _, _)
Invocations(part_properties, setter, k) ==
    IF k > Len(part_properties) THEN 0
    ELSE Cardinality({i \in 1..Len(part_properties[k]) :
                         part_properties[k][i].setter = setter})
         + Invocations(part_properties, setter, k + 1)

\* the run pull, build, stage, prime is over: all steps ran, or one raised
RunOver == part.raised # "none" \/ Len(part.states) = Len(Steps)

----------------------------------------------------------------------------
(* Properties of the text prime_command returns (Spec) *)

\* the first token of a command as prime_command splits it
FirstToken(command) == ShlexSplit(command, TRUE)[1]

\* C11: whenever prime_command returns, for any raw command, primed tree and
\* can_use_wrapper / massage_command arguments, the returned command does not
\* start with "/" and matches _COMMAND_PATTERN; and when it is not the wrapper
\* name its first token names an executable regular file under prime_dir.
C11_ReturnedCommandIsValid ==
    \A self \in DOMAIN cmd :
        (ret[self].op = "prime_command" /\ ret[self].kind = "return") =>
            /\ ~StartsWith(ret[self].value, <<"/">>)
            /\ _COMMAND_PATTERN(ret[self].value)
            /\ ret[self].value # wrapped_command_name(cmd[self]) =>
                  /\ ~StartsWith(FirstToken(ret[self].value), <<"/">>)
                  /\ _executable_is_valid(fs, Primed(FirstToken(ret[self].value)))

=============================================================================
